---- MODULE Spec2Model ----
(***************************************************************************)
(* A model of src/equalizer.js: adjustWeights(data, m) and its helpers.    *)
(*                                                                         *)
(* JavaScript numbers are IEEE-754 binary64 values, and the program's      *)
(* control flow depends on their rounding (a sum of one-decimal values is  *)
(* compared with m by < and >).  Numbers are therefore modelled as         *)
(* binary64 values: a sign, a 53-bit significand and an exponent, with     *)
(* round-to-nearest-even after every +, * and /.  The significand is kept  *)
(* in limbs of LimbBits bits because TLC's integers are 32 bits wide.      *)
(* Zero is unsigned: the only divisor that can be zero is a sum started    *)
(* from 0, which is never -0, and no other operation of the program tells  *)
(* the two zeros apart.  Exponents are unbounded (no overflow to Infinity  *)
(* and no subnormals: the values reached stay far inside the normal        *)
(* range).                                                                 *)
(***************************************************************************)
EXTENDS Integers, Sequences, FiniteSets

\* ------------------------------------------------------------------------
\* Natural numbers of up to NLimbs limbs, least significant limb first.

LimbBits == 14
NLimbs == 9
MantBits == 53

Pow2(n) == 2 ^ n

Base == 2 ^ LimbBits

Limbs == 1..NLimbs

\* The limb i of a, 0 outside 1..NLimbs.
LimbAt(a, i) == IF i \in Limbs THEN a[i] ELSE 0

BZero == <<0, 0, 0, 0, 0, 0, 0, 0, 0>>

\* A small natural (below Base^3) as limbs.
BFromNat(v) == <<v % Base, (v \div Base) % Base, v \div (Base * Base), 0, 0, 0, 0, 0, 0>>

RECURSIVE AddFrom(_, _, _, _)
\* The limbs i.. of a + b, given the carry c into limb i.
AddFrom(a, b, i, c) ==
  IF i > NLimbs THEN <<>>
  ELSE LET t == a[i] + b[i] + c
       IN  <<t % Base>> \o AddFrom(a, b, i + 1, t \div Base)

BAdd(a, b) == AddFrom(a, b, 1, 0)

RECURSIVE SubFrom(_, _, _, _)
\* The limbs i.. of a - b (a >= b), given the borrow c out of limb i.
SubFrom(a, b, i, c) ==
  IF i > NLimbs THEN <<>>
  ELSE LET t == a[i] - b[i] - c
       IN  <<(t + Base) % Base>> \o SubFrom(a, b, i + 1, IF t < 0 THEN 1 ELSE 0)

BSub(a, b) == SubFrom(a, b, 1, 0)

RECURSIVE LessFrom(_, _, _)
LessFrom(a, b, i) ==
  IF i = 0 THEN FALSE
  ELSE IF a[i] # b[i] THEN a[i] < b[i]
  ELSE LessFrom(a, b, i - 1)

BLess(a, b) == LessFrom(a, b, NLimbs)

\* Coefficient k of the product of two numbers of at most 4 limbs each.
Conv4(a, b, k) ==
  LimbAt(a, 1) * LimbAt(b, k)     + LimbAt(a, 2) * LimbAt(b, k - 1)
  + LimbAt(a, 3) * LimbAt(b, k - 2) + LimbAt(a, 4) * LimbAt(b, k - 3)

RECURSIVE MulFrom(_, _, _, _)
MulFrom(a, b, k, c) ==
  IF k > NLimbs THEN <<>>
  ELSE LET t == Conv4(a, b, k) + c
       IN  <<t % Base>> \o MulFrom(a, b, k + 1, t \div Base)

\* a * b for a, b below Base^4 (two significands).
BMul(a, b) == MulFrom(a, b, 1, 0)

RECURSIVE SmallBitLen(_)
SmallBitLen(v) == IF v = 0 THEN 0 ELSE 1 + SmallBitLen(v \div 2)

RECURSIVE TopLimb(_, _)
TopLimb(a, i) == IF i = 0 THEN 0 ELSE IF a[i] # 0 THEN i ELSE TopLimb(a, i - 1)

\* The number of bits of a (0 for 0).
BitLen(a) ==
  LET t == TopLimb(a, NLimbs)
  IN  IF t = 0 THEN 0 ELSE LimbBits * (t - 1) + SmallBitLen(a[t])

\* Bit i of a (bit 0 is the least significant).
Bit(a, i) == (LimbAt(a, (i \div LimbBits) + 1) \div Pow2(i % LimbBits)) % 2

\* Whether a has a bit set below bit i.
AnyBelow(a, i) ==
  \/ \E j \in Limbs : j <= i \div LimbBits /\ a[j] # 0
  \/ LimbAt(a, (i \div LimbBits) + 1) % Pow2(i % LimbBits) # 0

\* floor(a / 2^r)
Shr(a, r) ==
  LET q  == r \div LimbBits
      lo == Pow2(r % LimbBits)
      hi == Pow2(LimbBits - (r % LimbBits))
      limb(i) == (LimbAt(a, i + q) \div lo) + (LimbAt(a, i + q + 1) % lo) * hi
  IN  <<limb(1), limb(2), limb(3), limb(4), limb(5), limb(6), limb(7), limb(8), limb(9)>>

\* a * 2^d (the result must fit NLimbs limbs)
Shl(a, d) ==
  LET q  == d \div LimbBits
      lo == Pow2(d % LimbBits)
      hi == Pow2(LimbBits - (d % LimbBits))
      limb(i) == (LimbAt(a, i - q) % hi) * lo + (LimbAt(a, i - q - 1) \div hi)
  IN  <<limb(1), limb(2), limb(3), limb(4), limb(5), limb(6), limb(7), limb(8), limb(9)>>

BOne == BFromNat(1)

\* ------------------------------------------------------------------------
\* binary64 values: k is "num", "inf" or "nan"; a finite non-zero value is
\* s * m * 2^e with s in {-1, 1} and 2^52 <= m < 2^53; zero has s = 0.

NaN == [k |-> "nan", s |-> 0, e |-> 0, m |-> BZero]
Inf(sign) == [k |-> "inf", s |-> sign, e |-> 0, m |-> BZero]
Zero == [k |-> "num", s |-> 0, e |-> 0, m |-> BZero]

IsNaN(x) == x.k = "nan"
IsInf(x) == x.k = "inf"
IsFinite(x) == x.k = "num"
IsZero(x) == x.k = "num" /\ x.s = 0

\* The binary64 value nearest to sign * (n + f) * 2^e, where 0 <= f < 1 and
\* sticky says whether f > 0; ties go to the even significand.
RoundPack(sign, n, e, sticky) ==
  LET len == BitLen(n)
  IN  IF len = 0 THEN Zero
      ELSE IF len <= MantBits
      THEN [k |-> "num", s |-> sign, e |-> e - (MantBits - len),
            m |-> Shl(n, MantBits - len)]
      ELSE LET r    == len - MantBits
               t    == Shr(n, r)
               half == Bit(n, r - 1) = 1
               rest == sticky \/ AnyBelow(n, r - 1)
               up   == half /\ (rest \/ Bit(t, 0) = 1)
               u    == IF up THEN BAdd(t, BOne) ELSE t
           IN  IF BitLen(u) > MantBits
               THEN [k |-> "num", s |-> sign, e |-> e + r + 1, m |-> Shr(u, 1)]
               ELSE [k |-> "num", s |-> sign, e |-> e + r, m |-> u]

Abs(i) == IF i < 0 THEN -i ELSE i
Sign(i) == IF i < 0 THEN -1 ELSE IF i = 0 THEN 0 ELSE 1

\* An integer literal.
FromInt(i) == RoundPack(Sign(i), BFromNat(Abs(i)), 0, FALSE)

FNeg(x) == [x EXCEPT !.s = -x.s]

\* The exponent gap beyond which the smaller operand of a sum cannot change
\* the rounded result.
FarGap == 60

\* x + y
FAdd(x, y) ==
  IF IsNaN(x) \/ IsNaN(y) THEN NaN
  ELSE IF IsInf(x) THEN (IF IsInf(y) /\ y.s # x.s THEN NaN ELSE x)
  ELSE IF IsInf(y) THEN y
  ELSE IF IsZero(x) THEN y
  ELSE IF IsZero(y) THEN x
  ELSE LET big   == IF x.e >= y.e THEN x ELSE y
           small == IF x.e >= y.e THEN y ELSE x
           d     == big.e - small.e
       IN  IF d > FarGap THEN big
           ELSE LET nb == Shl(big.m, d)
                    ns == small.m
                IN  IF big.s = small.s
                    THEN RoundPack(big.s, BAdd(nb, ns), small.e, FALSE)
                    ELSE IF BLess(nb, ns)
                    THEN RoundPack(small.s, BSub(ns, nb), small.e, FALSE)
                    ELSE RoundPack(big.s, BSub(nb, ns), small.e, FALSE)

\* x - y
FSub(x, y) == FAdd(x, FNeg(y))

\* x * y
FMul(x, y) ==
  IF IsNaN(x) \/ IsNaN(y) THEN NaN
  ELSE IF IsInf(x) \/ IsInf(y)
  THEN (IF IsZero(x) \/ IsZero(y) THEN NaN ELSE Inf(x.s * y.s))
  ELSE IF IsZero(x) \/ IsZero(y) THEN Zero
  ELSE RoundPack(x.s * y.s, BMul(x.m, y.m), x.e + y.e, FALSE)

\* Division works on significands held as two double limbs (hi, lo).
Wide == Base * Base
Hi(a) == a[3] + a[4] * Base
Lo(a) == a[1] + a[2] * Base

RECURSIVE LongDiv(_, _, _, _, _)
\* floor(r * 2^steps / d) and the remainder it leaves, for r < 2 * d: one
\* quotient bit per step, most significant first (shift and subtract).
LongDiv(rh, rl, dh, dl, steps) ==
  LET less == rh < dh \/ (rh = dh /\ rl < dl)
      sl   == IF less THEN rl ELSE IF rl < dl THEN rl - dl + Wide ELSE rl - dl
      sh   == IF less THEN rh ELSE IF rl < dl THEN rh - dh - 1 ELSE rh - dh
      bit  == IF less THEN 0 ELSE 1
  IN  IF steps = 0 THEN [q |-> bit, rh |-> sh, rl |-> sl]
      ELSE LET rest == LongDiv(2 * sh + (2 * sl) \div Wide, (2 * sl) % Wide,
                               dh, dl, steps - 1)
           IN  [q |-> bit * Pow2(steps) + rest.q, rh |-> rest.rh, rl |-> rest.rl]

\* floor(a * Base^4 / d) for significands a and d, a limb of quotient at a
\* time, and whether a remainder is left.
DivMant(a, d) ==
  LET dh == Hi(d)
      dl == Lo(d)
      c1 == LongDiv(Hi(a), Lo(a), dh, dl, LimbBits)
      c2 == LongDiv(c1.rh, c1.rl, dh, dl, LimbBits)
      c3 == LongDiv(c2.rh, c2.rl, dh, dl, LimbBits)
      c4 == LongDiv(c3.rh, c3.rl, dh, dl, LimbBits)
  IN  [q |-> <<c4.q, c3.q, c2.q, c1.q % Base, c1.q \div Base, 0, 0, 0, 0>>,
       inexact |-> c4.rh # 0 \/ c4.rl # 0]

\* The number of quotient bits DivMant computes after the leading one.
QuotBits == 4 * LimbBits

\* x / y
FDiv(x, y) ==
  IF IsNaN(x) \/ IsNaN(y) THEN NaN
  ELSE IF IsInf(x) THEN (IF IsInf(y) THEN NaN
                         ELSE Inf(IF IsZero(y) THEN x.s ELSE x.s * y.s))
  ELSE IF IsInf(y) THEN Zero
  ELSE IF IsZero(y) THEN (IF IsZero(x) THEN NaN ELSE Inf(x.s))
  ELSE IF IsZero(x) THEN Zero
  ELSE LET qr == DivMant(x.m, y.m)
       IN  RoundPack(x.s * y.s, qr.q, x.e - y.e - QuotBits, qr.inexact)

\* |x| < |y| for x, y not NaN
AbsLess(x, y) ==
  IF IsInf(x) THEN FALSE
  ELSE IF IsInf(y) THEN TRUE
  ELSE IF IsZero(y) THEN FALSE
  ELSE IF IsZero(x) THEN TRUE
  ELSE x.e < y.e \/ (x.e = y.e /\ BLess(x.m, y.m))

\* x < y (false when either is NaN)
FLess(x, y) ==
  IF IsNaN(x) \/ IsNaN(y) THEN FALSE
  ELSE IF x.s # y.s THEN x.s < y.s
  ELSE IF x.s = 1 THEN AbsLess(x, y)
  ELSE IF x.s = -1 THEN AbsLess(y, x)
  ELSE FALSE

FGreater(x, y) == FLess(y, x)
FLeq(x, y) == ~IsNaN(x) /\ ~IsNaN(y) /\ ~FLess(y, x)
FGeq(x, y) == FLeq(y, x)

\* Math.round(x): floor(x + 0.5), computed exactly.
MathRound(x) ==
  IF ~IsFinite(x) \/ IsZero(x) \/ x.e >= 0 THEN x
  ELSE IF -x.e > MantBits + 1 THEN Zero
  ELSE LET f     == -x.e
           whole == Shr(x.m, f)
           half  == Bit(x.m, f - 1) = 1
           rest  == AnyBelow(x.m, f - 1)
           up    == IF x.s = 1 THEN half ELSE half /\ rest
       IN  RoundPack(x.s, IF up THEN BAdd(whole, BOne) ELSE whole, 0, FALSE)

Ten == FromInt(10)
Two == FromInt(2)
\* The literal 0.1
PointOne == FDiv(FromInt(1), Ten)

\* The value of `undefined` in arithmetic and comparisons (ToNumber gives NaN).
Undefined == NaN

\* a === b on numbers
StrictEq(a, b) == ~IsNaN(a) /\ ~IsNaN(b) /\ a = b

\* A one-decimal literal t/10.
Tenths(t) == FDiv(FromInt(t), Ten)

\* ------------------------------------------------------------------------
\* Objects are sequences of entries [key, val] in property enumeration order
\* (integer-like keys ascending, then string keys in insertion order).

\* Object.values(obj)
Values(obj) == [i \in 1..Len(obj) |-> obj[i].val]

\* The property name of array index i.
IndexKey(i) == <<"0", "1", "2", "3", "4", "5">>[i + 1]

RECURSIVE InsertSorted(_, _)
InsertSorted(sorted, v) ==
  IF sorted = <<>> THEN <<v>>
  ELSE IF FLess(v, Head(sorted)) THEN <<v>> \o sorted
  ELSE <<Head(sorted)>> \o InsertSorted(Tail(sorted), v)

RECURSIVE SortAsc(_)
\* array.sort((a, b) => a - b) on finite numbers
SortAsc(arr) ==
  IF arr = <<>> THEN <<>>
  ELSE InsertSorted(SortAsc(SubSeq(arr, 1, Len(arr) - 1)), arr[Len(arr)])

\* weights[i] for a 0-based index i, undefined outside the array
At(arr, i) == IF i + 1 \in 1..Len(arr) THEN arr[i + 1] ELSE Undefined

RECURSIVE SumFrom(_, _, _)
SumFrom(arr, i, acc) ==
  IF i > Len(arr) THEN acc ELSE SumFrom(arr, i + 1, FAdd(acc, arr[i]))

\* values.reduce((acc, curr) => acc + curr, 0)
SumOf(arr) == SumFrom(arr, 1, Zero)

\* adjustAllWeights(weights, amount)
adjustAllWeights(weights, amount) ==
  [i \in 1..Len(weights) |->
     [key |-> IndexKey(i - 1), val |-> FAdd(weights[i], amount)]]

\* adjustMaxWeight(weights, newMax, oldMax)
adjustMaxWeight(weights, newMax, oldMax) ==
  [i \in 1..Len(weights) |->
     [key |-> IndexKey(i - 1),
      val |-> IF StrictEq(weights[i], oldMax) THEN newMax ELSE weights[i]]]

\* Math.round((m / adjustedSum * value) * 10) / 10
RescaleValue(target, sum, value) ==
  FDiv(MathRound(FMul(FMul(FDiv(target, sum), value), Ten)), Ten)

\* Object.fromEntries(Object.entries(obj).map(...)) of the rescale
Rescaled(obj, target, sum) ==
  [i \in 1..Len(obj) |->
     [key |-> obj[i].key, val |-> RescaleValue(target, sum, obj[i].val)]]

\* A variant of StepDown that moves the value up by 0.1 instead of down.
StepDownRaising(value) == FDiv(MathRound(FMul(FAdd(value, PointOne), Ten)), Ten)

\* Math.round((value - 0.1) * 10) / 10
StepDown(value) == FDiv(MathRound(FMul(FSub(value, PointOne), Ten)), Ten)

\* Math.round((value + 0.1) * 10) / 10
StepUp(value) == FDiv(MathRound(FMul(FAdd(value, PointOne), Ten)), Ten)

\* The median of adjustHighWeights
Eta(sorted, n) ==
  IF n % 2 = 0
  THEN FDiv(FAdd(At(sorted, (n \div 2) - 1), At(sorted, n \div 2)), Two)
  ELSE At(sorted, (n - 1) \div 2)

\* obj[key] = v for a key obj has
SetVal(obj, key, v) ==
  [i \in 1..Len(obj) |-> IF obj[i].key = key THEN [obj[i] EXCEPT !.val = v] ELSE obj[i]]

\* ------------------------------------------------------------------------
\* Bounds of the inputs: an object of 1..Len(Keys) properties whose weights
\* are integers in -MaxNeg..MaxPos or one-decimal values 0.1..MaxFrac/10,
\* and a target among 0, FracTarget/10 and MaxTarget.

Keys == <<"a", "b", "c">>
MaxNeg == 3
MaxPos == 2
MaxFrac == 1
FracTarget == 3
MaxTarget == 10

WeightTenths == {10 * u : u \in -MaxNeg..MaxPos} \cup 1..MaxFrac
TargetTenths == {0, FracTarget, 10 * MaxTarget}

\* The caller's object with the properties Keys[1..Len(w)], in that order,
\* and the weights w[i]/10.
InputObject(w) == [i \in 1..Len(w) |-> [key |-> Keys[i], val |-> Tenths(w[i])]]

\* The heap reference of the caller's object.
DataRef == 1

VARIABLES
  heap,         \* the objects allocated so far; a reference is an index
  m,            \* the parameter m
  pc,           \* where the call is
  n,            \* weights.length
  adjusted,     \* adjustWeights' adjustedWeights (a reference; 0 before line 39)
  adjustedSum,  \* adjustWeights' adjustedSum
  eta,          \* adjustHighWeights' eta
  second,       \* adjustLowWeights' sortedWeights[1]
  loopRef,      \* adjustedWeights of adjustHighWeights / adjustLowWeights
  loopSum,      \* adjustedSum of adjustHighWeights / adjustLowWeights
  entries,      \* the Object.entries(...) array the for-of loop walks
  idx,          \* the 1-based position of the for-of loop in entries
  result        \* the reference adjustWeights returned (0 before it returns)

vars == <<heap, m, pc, n, adjusted, adjustedSum, eta, second, loopRef, loopSum,
          entries, idx, result>>

loopVars == <<eta, second, loopRef, loopSum, entries, idx>>

Init ==
  /\ \E len \in 1..Len(Keys) : \E w \in [1..len -> WeightTenths] :
       heap = <<InputObject(w)>>
  /\ \E t \in TargetTenths : m = Tenths(t)
  /\ pc = "start"
  /\ n = 0
  /\ adjusted = 0
  /\ adjustedSum = Undefined
  /\ eta = Undefined
  /\ second = Undefined
  /\ loopRef = 0
  /\ loopSum = Undefined
  /\ entries = <<>>
  /\ idx = 0
  /\ result = 0

\* Lines 33-38: the sorted copy of the weights and what is read from it.
SortedWeights(data) == SortAsc(Values(data))
MinWeight(data) == At(SortedWeights(data), 0)
MaxWeight(data) == At(SortedWeights(data), Len(data) - 1)
SecondMaxWeight(data) == At(SortedWeights(data), Len(data) - 2)

\* Which of the branches of lines 41-47 is taken.
CorrectionBranch(data) ==
  IF FLeq(MinWeight(data), Zero) THEN "floor"
  ELSE IF FGreater(FSub(MaxWeight(data), SecondMaxWeight(data)), MinWeight(data))
  THEN "ceiling"
  ELSE "none"

\* A variant of Spread that allocates nothing and evaluates to the object
\* itself.
SpreadAliasing(h, ref) == [heap |-> h, ref |-> ref]

\* { ...obj }: a new object with the properties of the object at ref. The
\* heap after the allocation and the reference the expression evaluates to.
Spread(h, ref) == [heap |-> Append(h, h[ref]), ref |-> Len(h) + 1]

\* Lines 39-47, end: adjustedWeights names the object at ref of the heap h.
Assigned(h, ref) ==
  /\ n' = Len(heap[DataRef])
  /\ heap' = h
  /\ adjusted' = ref
  /\ pc' = "rescale"
  /\ UNCHANGED <<m, adjustedSum, result>>
  /\ UNCHANGED loopVars

\* Lines 33-42: the floor branch; line 39 allocates {} and adjustAllWeights
\* allocates the object adjustedWeights ends up naming.
FloorCorrection ==
  /\ pc = "start"
  /\ CorrectionBranch(heap[DataRef]) = "floor"
  /\ Assigned(heap \o <<<<>>, adjustAllWeights(SortedWeights(heap[DataRef]),
                                               MinWeight(heap[DataRef]))>>,
              Len(heap) + 2)

\* Lines 33-44: the ceiling branch.
CeilingCorrection ==
  /\ pc = "start"
  /\ CorrectionBranch(heap[DataRef]) = "ceiling"
  /\ Assigned(heap \o <<<<>>, adjustMaxWeight(SortedWeights(heap[DataRef]),
                                              FAdd(SecondMaxWeight(heap[DataRef]),
                                                   MinWeight(heap[DataRef])),
                                              MaxWeight(heap[DataRef]))>>,
              Len(heap) + 2)

\* Lines 33-46: neither correction; adjustedWeights is a copy of data.
NoCorrection ==
  /\ pc = "start"
  /\ CorrectionBranch(heap[DataRef]) = "none"
  /\ Assigned(Spread(Append(heap, <<>>), DataRef).heap,
              Spread(Append(heap, <<>>), DataRef).ref)

\* Lines 49-53: the rescale into a new object, and its sum.
Rescale ==
  /\ pc = "rescale"
  /\ heap' = Append(heap, Rescaled(heap[adjusted], m, SumOf(Values(heap[adjusted]))))
  /\ adjusted' = Len(heap) + 1
  /\ adjustedSum' = SumOf(Values(heap'[adjusted']))
  /\ pc' = "compare"
  /\ UNCHANGED <<m, n, result>>
  /\ UNCHANGED loopVars

\* A variant of Reconciliation without the test of line 56.
ReconciliationHighOnly(sum, target) ==
  IF FLess(sum, target) THEN "high" ELSE "none"

\* Lines 54-58: which reconciliation is called.
Reconciliation(sum, target) ==
  IF FLess(sum, target) THEN "high"
  ELSE IF FGreater(sum, target) THEN "low"
  ELSE "none"

\* Lines 54-55 and 104-107: adjustHighWeights is called and runs to its loop.
CallHigh ==
  /\ pc = "compare"
  /\ Reconciliation(adjustedSum, m) = "high"
  /\ eta' = Eta(SortAsc(Values(heap[adjusted])), n)
  /\ heap' = Spread(heap, adjusted).heap
  /\ loopRef' = Spread(heap, adjusted).ref
  /\ loopSum' = SumOf(Values(heap[adjusted]))
  /\ pc' = "highWhile"
  /\ UNCHANGED <<m, n, adjusted, adjustedSum, second, entries, idx, result>>

\* Lines 56-57 and 132-134: adjustLowWeights is called and runs to its loop.
CallLow ==
  /\ pc = "compare"
  /\ Reconciliation(adjustedSum, m) = "low"
  /\ second' = At(SortAsc(Values(heap[adjusted])), 1)
  /\ heap' = Spread(heap, adjusted).heap
  /\ loopRef' = Spread(heap, adjusted).ref
  /\ loopSum' = SumOf(Values(heap[adjusted]))
  /\ pc' = "lowWhile"
  /\ UNCHANGED <<m, n, adjusted, adjustedSum, eta, entries, idx, result>>

\* Lines 54-60 when neither reconciliation is called.
ReturnRescaled ==
  /\ pc = "compare"
  /\ Reconciliation(adjustedSum, m) = "none"
  /\ result' = adjusted
  /\ pc' = "done"
  /\ UNCHANGED <<heap, m, n, adjusted, adjustedSum>>
  /\ UNCHANGED loopVars

\* Lines 121/148, 55/57 and 60: the loop's object is returned.
ReturnLoop ==
  /\ adjusted' = loopRef
  /\ result' = loopRef
  /\ pc' = "done"
  /\ UNCHANGED <<heap, m, n, adjustedSum>>
  /\ UNCHANGED loopVars

\* Line 109: the test of the while loop; a sweep starts or the function returns.
HighWhile ==
  /\ pc = "highWhile"
  /\ IF FLess(loopSum, m)
     THEN /\ entries' = heap[loopRef]
          /\ idx' = 1
          /\ pc' = "highFor"
          /\ UNCHANGED <<heap, m, n, adjusted, adjustedSum, eta, second, loopRef,
                         loopSum, result>>
     ELSE ReturnLoop

\* Lines 110-118: one iteration of the for-of loop, or its end.
HighFor ==
  /\ pc = "highFor"
  /\ IF idx > Len(entries)
     THEN /\ pc' = "highWhile"
          /\ UNCHANGED <<heap, loopSum, idx>>
     ELSE IF FGeq(entries[idx].val, eta)
     THEN /\ heap' = [heap EXCEPT ![loopRef] =
                        SetVal(@, entries[idx].key, StepDown(entries[idx].val))]
          /\ loopSum' = SumOf(Values(heap'[loopRef]))
          /\ IF FGeq(loopSum', m)
             THEN pc' = "highWhile" /\ UNCHANGED idx
             ELSE pc' = "highFor" /\ idx' = idx + 1
     ELSE /\ idx' = idx + 1
          /\ UNCHANGED <<heap, loopSum, pc>>
  /\ UNCHANGED <<m, n, adjusted, adjustedSum, eta, second, loopRef, entries, result>>

\* Line 136: the test of the while loop; a sweep starts or the function returns.
LowWhile ==
  /\ pc = "lowWhile"
  /\ IF FGreater(loopSum, m)
     THEN /\ entries' = heap[loopRef]
          /\ idx' = 1
          /\ pc' = "lowFor"
          /\ UNCHANGED <<heap, m, n, adjusted, adjustedSum, eta, second, loopRef,
                         loopSum, result>>
     ELSE ReturnLoop

\* Lines 137-145: one iteration of the for-of loop, or its end.
LowFor ==
  /\ pc = "lowFor"
  /\ IF idx > Len(entries)
     THEN /\ pc' = "lowWhile"
          /\ UNCHANGED <<heap, loopSum, idx>>
     ELSE IF FLess(entries[idx].val, second)
     THEN /\ heap' = [heap EXCEPT ![loopRef] =
                        SetVal(@, entries[idx].key, StepUp(entries[idx].val))]
          /\ loopSum' = SumOf(Values(heap'[loopRef]))
          /\ IF FLeq(loopSum', m)
             THEN pc' = "lowWhile" /\ UNCHANGED idx
             ELSE pc' = "lowFor" /\ idx' = idx + 1
     ELSE /\ idx' = idx + 1
          /\ UNCHANGED <<heap, loopSum, pc>>
  /\ UNCHANGED <<m, n, adjusted, adjustedSum, eta, second, loopRef, entries, result>>

Next ==
  \/ FloorCorrection
  \/ CeilingCorrection
  \/ NoCorrection
  \/ Rescale
  \/ CallHigh
  \/ CallLow
  \/ ReturnRescaled
  \/ HighWhile
  \/ HighFor
  \/ LowWhile
  \/ LowFor

Spec == Init /\ [][Next]_vars

\* ------------------------------------------------------------------------
\* Reading values as decimals.

\* Whether x is zero or a finite value of magnitude below 2^(2 * LimbBits).
IsSmall(x) == IsFinite(x) /\ (IsZero(x) \/ x.e <= 2 * LimbBits - MantBits)

\* The integer an integer-valued small x is.
IntOf(x) ==
  IF IsZero(x) \/ x.e >= 0 THEN 0
  ELSE x.s * (Shr(x.m, -x.e)[1] + Shr(x.m, -x.e)[2] * Base)

\* The number of tenths nearest to x.
TenthsOf(x) == IntOf(MathRound(FMul(x, Ten)))

\* Whether x is the value of a one-decimal literal.
IsOneDecimal(x) ==
  IsSmall(x) /\ IsSmall(FMul(x, Ten)) /\ Tenths(TenthsOf(x)) = x

RECURSIVE TenthsSumFrom(_, _)
TenthsSumFrom(obj, i) ==
  IF i > Len(obj) THEN 0 ELSE TenthsOf(obj[i].val) + TenthsSumFrom(obj, i + 1)

\* The decimal sum of the weights of obj, in tenths.
TenthsSum(obj) == TenthsSumFrom(obj, 1)

\* The sum line 49 computes: that of the object lines 39-47 assigned, which is
\* the second allocation after the caller's object.
PostCorrectionSum == SumOf(Values(heap[DataRef + 2]))

InHighLoop == pc \in {"highWhile", "highFor"}
InLowLoop == pc \in {"lowWhile", "lowFor"}

\* ------------------------------------------------------------------------
\* C1: every call returns. A sweep of a reconciliation loop is only completed
\* while the loop's condition holds; if it has changed no weight, the loop is
\* back in the state the sweep started from and repeats it forever. So in a
\* call that returns, every completed sweep has changed a weight.
SweepsProgress ==
  ((InHighLoop \/ InLowLoop) /\ idx > Len(entries)) => heap[loopRef] # entries

\* C2: when the post-correction sum is not zero and the call returns, the
\* returned weights are one-decimal values whose decimal sum is m.
ReturnedSumIsTarget ==
  (pc = "done" /\ IsFinite(PostCorrectionSum) /\ ~IsZero(PostCorrectionSum)) =>
    /\ \A i \in 1..Len(heap[result]) : IsOneDecimal(heap[result][i].val)
    /\ TenthsSum(heap[result]) = TenthsOf(m)

\* A call of three weights with a non-zero sum and a non-zero target has
\* returned an object that differs from the input.
ReturnedSumIsTargetSeen ==
  /\ pc = "done"
  /\ n = Len(Keys)
  /\ IsFinite(PostCorrectionSum) /\ ~IsZero(PostCorrectionSum)
  /\ ~IsZero(m)
  /\ Values(heap[result]) # Values(heap[DataRef])

\* C3: the returned object has the keys of the input, one weight per key, in
\* the positions of the input.
KeysKept ==
  pc = "done" =>
    /\ Len(heap[result]) = Len(heap[DataRef])
    /\ \A i \in 1..Len(heap[DataRef]) : heap[result][i].key = heap[DataRef][i].key

\* C4: a call of more than one key whose post-correction sum is zero does not
\* return an object, and no returned object of more than one key holds NaN
\* or an infinity.
ZeroSumNotReturned ==
  (pc = "done" /\ n > 1) =>
    /\ ~IsZero(PostCorrectionSum)
    /\ \A i \in 1..Len(heap[result]) : IsFinite(heap[result][i].val)

\* C5: a call of exactly one key returns that key with the weight m.
SingleKeyGetsTarget ==
  (pc = "done" /\ n = 1) =>
    heap[result] = <<[key |-> heap[DataRef][1].key, val |-> m]>>

\* The precondition of C6 read in decimals: at least two weights, the
\* smallest positive, the largest at most the smallest above the second
\* largest, and the weights summing to target.
AlreadyBalanced(data, target) ==
  /\ Len(data) >= 2
  /\ TenthsOf(MinWeight(data)) > 0
  /\ TenthsOf(MaxWeight(data)) - TenthsOf(SecondMaxWeight(data))
       <= TenthsOf(MinWeight(data))
  /\ TenthsSum(data) = TenthsOf(target)

\* C6: a call on already balanced one-decimal weights enters no
\* reconciliation and returns the weights it was given.
BalancedInputReturned ==
  AlreadyBalanced(heap[DataRef], m) =>
    /\ ~InHighLoop
    /\ ~InLowLoop
    /\ pc = "done" => heap[result] = heap[DataRef]

\* C7: no step of a call changes the caller's object, and no reference the
\* call writes through or returns names it.
InputNeverMutated ==
  [][/\ heap'[DataRef] = heap[DataRef]
     /\ adjusted' # DataRef
     /\ loopRef' # DataRef
     /\ result' # DataRef]_vars

\* A reconciliation loop has changed a weight of its own object.
InputNeverMutatedSeen ==
  /\ InHighLoop \/ InLowLoop
  /\ heap[loopRef] # heap[adjusted]
  /\ adjusted # DataRef

\* C8: when the smallest input weight is at most zero, the weights handed on
\* by the corrections are all at least zero and the smallest of them is zero.
FloorLiftsToZero ==
  (pc = "rescale" /\ FLeq(MinWeight(heap[DataRef]), Zero)) =>
    /\ \A i \in 1..Len(heap[adjusted]) : FGeq(heap[adjusted][i].val, Zero)
    /\ MinWeight(heap[adjusted]) = Zero

\* C9: for two or more weights, the weights handed to the rescale have their
\* largest at most their smallest above their second largest.
CeilingBounded ==
  (pc = "rescale" /\ n >= 2) =>
    FLeq(FSub(MaxWeight(heap[adjusted]), SecondMaxWeight(heap[adjusted])),
         MinWeight(heap[adjusted]))

\* The for-of loop is at an entry whose weight it updates.
HighUpdates ==
  pc = "highFor" /\ idx <= Len(entries) /\ FGeq(entries[idx].val, eta)
LowUpdates ==
  pc = "lowFor" /\ idx <= Len(entries) /\ FLess(entries[idx].val, second)

\* C10: every update of adjustHighWeights lowers the running sum, which stays
\* below m; every update of adjustLowWeights raises it, and it stays above m;
\* no sweep is left by its break, and neither loop returns.
LoopsMoveAway ==
  [][/\ HighUpdates => FLess(loopSum', loopSum) /\ FLess(loopSum', m)
     /\ LowUpdates => FGreater(loopSum', loopSum) /\ FGreater(loopSum', m)
     /\ InHighLoop => InHighLoop' /\ FLess(loopSum', m)
     /\ InLowLoop => InLowLoop' /\ FGreater(loopSum', m)
     /\ (pc = "highFor" /\ pc' = "highWhile") => idx > Len(entries)
     /\ (pc = "lowFor" /\ pc' = "lowWhile") => idx > Len(entries)]_vars

\* adjustHighWeights has updated a weight in a second or later sweep.
LoopsMoveAwaySeen ==
  /\ pc = "highFor"
  /\ idx > 1
  /\ entries # heap[adjusted]
  /\ heap[loopRef] # entries
  /\ FLess(loopSum, m)
====
